---- MODULE Spec2Model ----
(***************************************************************************)
(* Model of scripts/linecount.py: the per-file line classifier count_file *)
(* with its comment-spec lookup get_spec, and the directory walk, filters, *)
(* accumulation and report of main.                                        *)
(*                                                                         *)
(* A Python str is a sequence of one-character strings, so that strip,     *)
(* find, split, startswith, lower, Path.suffix and Path.stem are computed  *)
(* as the interpreter computes them.  None is the empty sequence: the code *)
(* only ever tests in_block_end for truthiness.                            *)
(***************************************************************************)
EXTENDS Integers, Sequences, FiniteSets, TLC

----------------------------------------------------------------------------
(* Bounds of the model *)

\* lines read from one file in the scanner specification
MaxLines == 3
\* pieces (a blank, an ordinary character, a comment marker) making up a line
MaxPieces == 3

----------------------------------------------------------------------------
(* str helpers *)

None == <<>>

Whitespace == {" ", "\t", "\n", "\r", "\f"}

SetMin(S) == CHOOSE x \in S : \A y \in S : x <= y

SetMax(S) == CHOOSE x \in S : \A y \in S : x >= y

\* s.strip()
Strip(s) ==
    LET keep == {i \in 1..Len(s) : s[i] \notin Whitespace}
    IN  IF keep = {} THEN <<>> ELSE SubSeq(s, SetMin(keep), SetMax(keep))

\* s.find(sub): 0-based index of the first occurrence, -1 when there is none
Find(s, sub) ==
    LET hits == {i \in 0..(Len(s) - Len(sub)) : SubSeq(s, i + 1, i + Len(sub)) = sub}
    IN  IF hits = {} THEN -1 ELSE SetMin(hits)

\* s.rfind(sub)
RFind(s, sub) ==
    LET hits == {i \in 0..(Len(s) - Len(sub)) : SubSeq(s, i + 1, i + Len(sub)) = sub}
    IN  IF hits = {} THEN -1 ELSE SetMax(hits)

\* sub in s
Contains(s, sub) == Find(s, sub) # -1

\* s.split(sep, 1)[1], for sep in s
AfterFirst(s, sep) == SubSeq(s, Find(s, sep) + Len(sep) + 1, Len(s))

\* s[:idx]
Before(s, idx) == SubSeq(s, 1, idx)

\* s[idx:]
From(s, idx) == SubSeq(s, idx + 1, Len(s))

\* s.startswith(prefix)
StartsWith(s, prefix) ==
    Len(prefix) <= Len(s) /\ SubSeq(s, 1, Len(prefix)) = prefix

\* s.endswith(suffix)
EndsWith(s, suffix) ==
    Len(suffix) <= Len(s) /\ SubSeq(s, Len(s) - Len(suffix) + 1, Len(s)) = suffix

UpperToLower ==
    [c \in {"A", "B", "C", "D", "E", "F", "G", "H", "I", "J", "K", "L", "M",
            "N", "O", "P", "Q", "R", "S", "T", "U", "V", "W", "X", "Y", "Z"} |->
        CASE c = "A" -> "a" [] c = "B" -> "b" [] c = "C" -> "c" [] c = "D" -> "d"
          [] c = "E" -> "e" [] c = "F" -> "f" [] c = "G" -> "g" [] c = "H" -> "h"
          [] c = "I" -> "i" [] c = "J" -> "j" [] c = "K" -> "k" [] c = "L" -> "l"
          [] c = "M" -> "m" [] c = "N" -> "n" [] c = "O" -> "o" [] c = "P" -> "p"
          [] c = "Q" -> "q" [] c = "R" -> "r" [] c = "S" -> "s" [] c = "T" -> "t"
          [] c = "U" -> "u" [] c = "V" -> "v" [] c = "W" -> "w" [] c = "X" -> "x"
          [] c = "Y" -> "y" [] c = "Z" -> "z"]

\* s.lower()
Lower(s) ==
    [i \in 1..Len(s) |-> IF s[i] \in DOMAIN UpperToLower THEN UpperToLower[s[i]] ELSE s[i]]

\* Path(name).suffix: from the last dot, unless that dot is first or last
Suffix(name) ==
    LET i == RFind(name, <<".">>)
    IN  IF 0 < i /\ i < Len(name) - 1 THEN From(name, i) ELSE <<>>

\* Path(name).stem
Stem(name) ==
    LET i == RFind(name, <<".">>)
    IN  IF 0 < i /\ i < Len(name) - 1 THEN Before(name, i) ELSE name

----------------------------------------------------------------------------
(* Comment-spec tables *)

Hash == <<"#">>
Slashes == <<"/", "/">>
CStart == <<"/", "*">>
CEnd == <<"*", "/">>
Sq3 == <<"'", "'", "'">>
Dq3 == <<"\"", "\"", "\"">>
XmlStart == <<"<", "!", "-", "-">>
XmlEnd == <<"-", "-", ">">>
PsStart == <<"<", "#">>
PsEnd == <<"#", ">">>

PySpec == [line |-> <<Hash>>, block |-> << <<Sq3, Sq3>>, <<Dq3, Dq3>> >>]
CLikeSpec == [line |-> <<Slashes>>, block |-> << <<CStart, CEnd>> >>]
CssSpec == [line |-> <<>>, block |-> << <<CStart, CEnd>> >>]
XmlSpec == [line |-> <<>>, block |-> << <<XmlStart, XmlEnd>> >>]
HashSpec == [line |-> <<Hash>>, block |-> <<>>]
PsSpec == [line |-> <<Hash>>, block |-> << <<PsStart, PsEnd>> >>]
EmptySpec == [line |-> <<>>, block |-> <<>>]

SPEC_BY_EXT ==
    <<".", "p", "y">> :> PySpec
    @@ <<".", "j", "s">> :> CLikeSpec
    @@ <<".", "j", "s", "x">> :> CLikeSpec
    @@ <<".", "t", "s">> :> CLikeSpec
    @@ <<".", "t", "s", "x">> :> CLikeSpec
    @@ <<".", "c", "j", "s">> :> CLikeSpec
    @@ <<".", "c", "s", "s">> :> CssSpec
    @@ <<".", "h", "t", "m", "l">> :> XmlSpec
    @@ <<".", "h", "t", "m">> :> XmlSpec
    @@ <<".", "m", "d">> :> XmlSpec
    @@ <<".", "y", "m", "l">> :> HashSpec
    @@ <<".", "y", "a", "m", "l">> :> HashSpec
    @@ <<".", "e", "n", "v">> :> HashSpec
    @@ <<".", "e", "x", "a", "m", "p", "l", "e">> :> HashSpec
    @@ <<".", "s", "h">> :> HashSpec
    @@ <<".", "b", "a", "s", "h">> :> HashSpec
    @@ <<".", "z", "s", "h">> :> HashSpec
    @@ <<".", "p", "s", "1">> :> PsSpec
    @@ <<".", "j", "s", "o", "n">> :> EmptySpec
    @@ <<".", "t", "x", "t">> :> EmptySpec

SPEC_BY_NAME ==
    <<"d", "o", "c", "k", "e", "r", "f", "i", "l", "e">> :> HashSpec
    @@ <<"m", "a", "k", "e", "f", "i", "l", "e">> :> HashSpec
    @@ <<".", "g", "i", "t", "i", "g", "n", "o", "r", "e">> :> HashSpec
    @@ <<".", "d", "o", "c", "k", "e", "r", "i", "g", "n", "o", "r", "e">> :> HashSpec
    @@ <<".", "e", "n", "v">> :> HashSpec
    @@ <<".", "e", "n", "v", ".", "e", "x", "a", "m", "p", "l", "e">> :> HashSpec

\* get_spec, were the name and the extension looked up as they are spelled
get_spec_CaseSensitive(name) ==
    IF name \in DOMAIN SPEC_BY_NAME
    THEN SPEC_BY_NAME[name]
    ELSE IF Suffix(name) \in DOMAIN SPEC_BY_EXT
         THEN SPEC_BY_EXT[Suffix(name)]
         ELSE EmptySpec

\* get_spec, were the fallback the spec of a shell-like file
get_spec_HashFallback(name) ==
    IF Lower(name) \in DOMAIN SPEC_BY_NAME
    THEN SPEC_BY_NAME[Lower(name)]
    ELSE IF Lower(Suffix(name)) \in DOMAIN SPEC_BY_EXT
         THEN SPEC_BY_EXT[Lower(Suffix(name))]
         ELSE HashSpec

get_spec(name) ==
    IF Lower(name) \in DOMAIN SPEC_BY_NAME
    THEN SPEC_BY_NAME[Lower(name)]
    ELSE IF Lower(Suffix(name)) \in DOMAIN SPEC_BY_EXT
         THEN SPEC_BY_EXT[Lower(Suffix(name))]
         ELSE EmptySpec

----------------------------------------------------------------------------
(* count_file: the verdict of one line *)

Verdict(v, ibe) == [verdict |-> v, in_block_end |-> ibe]

\* InBlockStep, were the text after the close delimiter not looked at
InBlockStep_CloseIsComment(stripped, end) ==
    IF Contains(stripped, end)
    THEN Verdict("comment", None)
    ELSE Verdict("comment", end)

\* the line read while a close delimiter is pending
InBlockStep(stripped, end) ==
    IF Contains(stripped, end)
    THEN IF Strip(AfterFirst(stripped, end)) # <<>>
         THEN Verdict("code", None)
         ELSE Verdict("comment", None)
    ELSE Verdict("comment", end)

\* line_comments and any(stripped.startswith(prefix) for prefix in line_comments)
LineCommentMatch(stripped, line_comments) ==
    /\ line_comments # <<>>
    /\ \E i \in 1..Len(line_comments) : StartsWith(stripped, line_comments[i])

\* FirstStarted, were the pair taken whose start delimiter comes first in the
\* line instead of first in the declaration
FirstStarted_Leftmost(stripped, block_comments) ==
    LET found == {i \in 1..Len(block_comments) :
                      Find(stripped, block_comments[i][1]) # -1}
    IN  IF found = {}
        THEN 0
        ELSE CHOOSE i \in found :
                 \A j \in found :
                     \/ Find(stripped, block_comments[i][1]) < Find(stripped, block_comments[j][1])
                     \/ /\ Find(stripped, block_comments[i][1]) = Find(stripped, block_comments[j][1])
                        /\ i <= j

\* the index of the pair at which the loop over block_comments breaks, 0 if it
\* runs to its end
FirstStarted(stripped, block_comments) ==
    LET found == {i \in 1..Len(block_comments) :
                      Find(stripped, block_comments[i][1]) # -1}
    IN  IF found = {} THEN 0 ELSE SetMin(found)

\* BlockStartStep, were the start delimiter stored as the delimiter to wait for
BlockStartStep_PendsStart(stripped, start, end) ==
    LET idx == Find(stripped, start)
        before == Strip(Before(stripped, idx))
        after == From(stripped, idx + Len(start))
    IN  IF before # <<>>
        THEN Verdict("code", None)
        ELSE IF Contains(after, end)
             THEN IF Strip(AfterFirst(after, end)) # <<>>
                  THEN Verdict("code", None)
                  ELSE Verdict("comment", None)
             ELSE Verdict("comment", start)

\* BlockStartStep, were a comment opened behind code and not closed on its line
\* to leave its end delimiter pending
BlockStartStep_OpensAfterCode(stripped, start, end) ==
    LET idx == Find(stripped, start)
        before == Strip(Before(stripped, idx))
        after == From(stripped, idx + Len(start))
    IN  IF before # <<>>
        THEN IF Contains(after, end) THEN Verdict("code", None) ELSE Verdict("code", end)
        ELSE IF Contains(after, end)
             THEN IF Strip(AfterFirst(after, end)) # <<>>
                  THEN Verdict("code", None)
                  ELSE Verdict("comment", None)
             ELSE Verdict("comment", end)

\* BlockStartStep, were the end delimiter not searched on the opening line
BlockStartStep_NoCloseOnLine(stripped, start, end) ==
    IF Strip(Before(stripped, Find(stripped, start))) # <<>>
    THEN Verdict("code", None)
    ELSE Verdict("comment", end)

\* BlockStartStep, were the end delimiter searched in the whole line instead of
\* the text after the start delimiter
BlockStartStep_EndInLine(stripped, start, end) ==
    LET idx == Find(stripped, start)
        before == Strip(Before(stripped, idx))
    IN  IF before # <<>>
        THEN Verdict("code", None)
        ELSE IF Contains(stripped, end)
             THEN IF Strip(AfterFirst(stripped, end)) # <<>>
                  THEN Verdict("code", None)
                  ELSE Verdict("comment", None)
             ELSE Verdict("comment", end)

\* the body of the loop for the pair whose start occurs in the line
BlockStartStep(stripped, start, end) ==
    LET idx == Find(stripped, start)
        before == Strip(Before(stripped, idx))
        after == From(stripped, idx + Len(start))
    IN  IF before # <<>>
        THEN Verdict("code", None)
        ELSE IF Contains(after, end)
             THEN IF Strip(AfterFirst(after, end)) # <<>>
                  THEN Verdict("code", None)
                  ELSE Verdict("comment", None)
             ELSE Verdict("comment", end)

\* ClassifyLine, were a blank line to end the pending block
ClassifyLine_BlankCloses(raw, ibe, spec) ==
    LET stripped == Strip(raw)
        k == FirstStarted(stripped, spec.block)
    IN  IF stripped = <<>>
        THEN Verdict("blank", None)
        ELSE IF ibe # None
             THEN InBlockStep(stripped, ibe)
             ELSE IF LineCommentMatch(stripped, spec.line)
                  THEN Verdict("comment", ibe)
                  ELSE IF k # 0
                       THEN BlockStartStep(stripped, spec.block[k][1], spec.block[k][2])
                       ELSE Verdict("code", ibe)

\* ClassifyLine, were the pending block looked at before the blank test
ClassifyLine_BlockFirst(raw, ibe, spec) ==
    LET stripped == Strip(raw)
        k == FirstStarted(stripped, spec.block)
    IN  IF ibe # None
        THEN InBlockStep(stripped, ibe)
        ELSE IF stripped = <<>>
             THEN Verdict("blank", ibe)
             ELSE IF LineCommentMatch(stripped, spec.line)
                  THEN Verdict("comment", ibe)
                  ELSE IF k # 0
                       THEN BlockStartStep(stripped, spec.block[k][1], spec.block[k][2])
                       ELSE Verdict("code", ibe)

\* ClassifyLine, were the line prefixes tried before the pending close delimiter
ClassifyLine_PrefixFirst(raw, ibe, spec) ==
    LET stripped == Strip(raw)
        k == FirstStarted(stripped, spec.block)
    IN  IF stripped = <<>>
        THEN Verdict("blank", ibe)
        ELSE IF LineCommentMatch(stripped, spec.line)
             THEN Verdict("comment", ibe)
             ELSE IF ibe # None
                  THEN InBlockStep(stripped, ibe)
                  ELSE IF k # 0
                       THEN BlockStartStep(stripped, spec.block[k][1], spec.block[k][2])
                       ELSE Verdict("code", ibe)

\* ClassifyLine, were the block pairs tried before the line prefixes
ClassifyLine_BlockBeforeLine(raw, ibe, spec) ==
    LET stripped == Strip(raw)
        k == FirstStarted(stripped, spec.block)
    IN  IF stripped = <<>>
        THEN Verdict("blank", ibe)
        ELSE IF ibe # None
             THEN InBlockStep(stripped, ibe)
             ELSE IF k # 0
                  THEN BlockStartStep(stripped, spec.block[k][1], spec.block[k][2])
                  ELSE IF LineCommentMatch(stripped, spec.line)
                       THEN Verdict("comment", ibe)
                       ELSE Verdict("code", ibe)

\* one iteration of "for line in f"
ClassifyLine(raw, ibe, spec) ==
    LET stripped == Strip(raw)
        k == FirstStarted(stripped, spec.block)
    IN  IF stripped = <<>>
        THEN Verdict("blank", ibe)
        ELSE IF ibe # None
             THEN InBlockStep(stripped, ibe)
             ELSE IF LineCommentMatch(stripped, spec.line)
                  THEN Verdict("comment", ibe)
                  ELSE IF k # 0
                       THEN BlockStartStep(stripped, spec.block[k][1], spec.block[k][2])
                       ELSE Verdict("code", ibe)

Bump(counter, v, which) == IF v = which THEN counter + 1 ELSE counter

\* the loop over the lines from position i on, with the counters and the pending
\* close delimiter in st
RECURSIVE ScanFrom(_, _, _, _)
ScanFrom(lines, i, st, spec) ==
    IF i > Len(lines)
    THEN st
    ELSE LET r == ClassifyLine(lines[i], st.in_block_end, spec)
         IN  ScanFrom(lines, i + 1,
                      [code |-> Bump(st.code, r.verdict, "code"),
                       comment |-> Bump(st.comment, r.verdict, "comment"),
                       blank |-> Bump(st.blank, r.verdict, "blank"),
                       in_block_end |-> r.in_block_end],
                      spec)

\* the locals of count_file when the loop over these lines is through
ScanAll(name, lines) ==
    ScanFrom(lines, 1,
             [code |-> 0, comment |-> 0, blank |-> 0, in_block_end |-> None],
             get_spec(name))

\* count_file(path) for a file of that name holding these lines
count_file(name, lines) ==
    LET st == ScanAll(name, lines)
    IN  <<st.code, st.comment, st.blank>>

----------------------------------------------------------------------------
(* The files and lines the scanner specification reads *)

ScanNames ==
    { <<"a", ".", "p", "y">>,
      <<"B", ".", "T", "S">>,
      <<"c", ".", "c", "s", "s">>,
      <<"s", ".", "p", "s", "1">>,
      <<"M", "a", "k", "e", "f", "i", "l", "e">>,
      <<".", "E", "n", "v", ".", "e", "x", "a", "m", "p", "l", "e">>,
      <<"r", ".", "z", "z">>,
      <<"n", "o", "t", "e", "s">> }

SeqRange(s) == {s[i] : i \in 1..Len(s)}

Markers(spec) ==
    SeqRange(spec.line)
    \cup {spec.block[i][1] : i \in 1..Len(spec.block)}
    \cup {spec.block[i][2] : i \in 1..Len(spec.block)}

\* a blank, an ordinary character, the markers of the file's own spec and, where
\* the spec has none of a kind, a marker of another language
Pieces(spec) ==
    {<<" ">>, <<"x">>}
    \cup Markers(spec)
    \cup (IF spec.line = <<>> THEN {Hash} ELSE {})
    \cup (IF spec.block = <<>> THEN {CStart} ELSE {})

RECURSIVE Concats(_, _)
Concats(n, P) ==
    IF n = 0
    THEN {<<>>}
    ELSE LET shorter == Concats(n - 1, P)
         IN  shorter \cup {p \o q : p \in P, q \in shorter}

\* the lines a file of each name may hold, each ended by its newline
LinesOf ==
    [n \in ScanNames |->
        {b \o <<"\n">> : b \in Concats(MaxPieces, Pieces(get_spec(n)))}]

\* spec = get_spec(path), looked up once per file
SpecOf == [n \in ScanNames |-> get_spec(n)]

----------------------------------------------------------------------------
(* main: tables, filters and the report *)

SKIP_DIRS_DEFAULT ==
    {".git", ".venv", "venv", "node_modules", "dist", "build", "out",
     ".pytest_cache", "__pycache__", ".mypy_cache", ".ruff_cache", ".next",
     ".turbo", ".idea", ".vscode", "data"}

ALLOWED_EXTS == {<<".", "p", "y">>, <<".", "t", "s">>, <<".", "t", "s", "x">>}

\* the key of a file without extension
NoneKey == <<"<", "n", "o", "n", "e", ">">>

\* the byte 0
NUL == "NUL"

\* f.read(2048) reads at most this many bytes
ProbeBytes == 2048

\* skip_dirs after difference_update(include_dir) and update(exclude_dir)
SkipDirs(include, exclude) == (SKIP_DIRS_DEFAULT \ include) \cup exclude

\* Prune, were the filtered list bound to a new name instead of replacing the
\* contents of the list os.walk descends into
Prune_Rebinds(dirnames, skip) == dirnames

\* [d for d in dirnames if d not in skip_dirs]
Prune(dirnames, skip) == SelectSeq(dirnames, LAMBDA d : d \notin skip)

\* ext not in ALLOWED_EXTS, for ext = path.suffix.lower()
ExtAllowed(name) == Lower(Suffix(name)) \in ALLOWED_EXTS

\* IsTestName, were the stem not lowercased
IsTestName_CaseSensitive(name) ==
    \/ StartsWith(Stem(name), <<"t", "e", "s", "t", "_">>)
    \/ EndsWith(Stem(name), <<"_", "t", "e", "s", "t">>)
    \/ EndsWith(Stem(name), <<".", "t", "e", "s", "t">>)
    \/ EndsWith(Stem(name), <<".", "s", "p", "e", "c">>)

\* the test-file naming conventions, on stem = path.stem.lower()
IsTestName(name) ==
    LET stem == Lower(Stem(name))
    IN  \/ StartsWith(stem, <<"t", "e", "s", "t", "_">>)
        \/ EndsWith(stem, <<"_", "t", "e", "s", "t">>)
        \/ EndsWith(stem, <<".", "t", "e", "s", "t">>)
        \/ EndsWith(stem, <<".", "s", "p", "e", "c">>)

RECURSIVE Flatten(_)
Flatten(lines) ==
    IF lines = <<>> THEN <<>> ELSE Head(lines) \o Flatten(Tail(lines))

\* is_binary, were a file that cannot be probed taken for text
is_binary_FailedProbeIsText(file) ==
    IF ~file.probe_ok
    THEN FALSE
    ELSE LET bytes == Flatten(file.lines)
             prefix == SubSeq(bytes, 1, IF Len(bytes) < ProbeBytes THEN Len(bytes) ELSE ProbeBytes)
         IN  \E i \in 1..Len(prefix) : prefix[i] = NUL

\* is_binary: a failed probe counts as binary
is_binary(file) ==
    IF ~file.probe_ok
    THEN TRUE
    ELSE LET bytes == Flatten(file.lines)
             prefix == SubSeq(bytes, 1, IF Len(bytes) < ProbeBytes THEN Len(bytes) ELSE ProbeBytes)
         IN  \E i \in 1..Len(prefix) : prefix[i] = NUL

\* ext if ext else "<none>"
KeyOf(name) == IF Lower(Suffix(name)) # <<>> THEN Lower(Suffix(name)) ELSE NoneKey

KeyIndex(stats, key) ==
    LET at == {i \in 1..Len(stats) : stats[i].ext = key}
    IN  IF at = {} THEN 0 ELSE SetMin(at)

\* Accumulate, were the counts of a file assigned instead of added
Accumulate_Overwrites(stats, key, counts) ==
    LET i == KeyIndex(stats, key)
        new == [ext |-> key,
                files |-> 1,
                code |-> counts[1],
                comment |-> counts[2],
                blank |-> counts[3]]
    IN  IF i = 0 THEN Append(stats, new) ELSE [stats EXCEPT ![i] = new]

\* ext_stats[key] += the counts of one file; a new key is created at the end
Accumulate(stats, key, counts) ==
    LET i == KeyIndex(stats, key)
        old == IF i = 0
               THEN [ext |-> key, files |-> 0, code |-> 0, comment |-> 0, blank |-> 0]
               ELSE stats[i]
        new == [ext |-> key,
                files |-> old.files + 1,
                code |-> old.code + counts[1],
                comment |-> old.comment + counts[2],
                blank |-> old.blank + counts[3]]
    IN  IF i = 0 THEN Append(stats, new) ELSE [stats EXCEPT ![i] = new]

RECURSIVE SumOf(_, _)
SumOf(stats, field) ==
    IF stats = <<>> THEN 0 ELSE Head(stats)[field] + SumOf(Tail(stats), field)

\* sort_key
Total(st) == st.code + st.comment + st.blank

\* InsertDesc, were the sort to put an item ahead of the items equal to it
InsertDesc_TiesAhead(sorted, item) ==
    LET ahead == {i \in 1..Len(sorted) : Total(sorted[i]) > Total(item)}
        k == IF ahead = {} THEN 0 ELSE SetMax(ahead)
    IN  SubSeq(sorted, 1, k) \o <<item>> \o SubSeq(sorted, k + 1, Len(sorted))

\* one item put into an already sorted list, behind the items that are not smaller
InsertDesc(sorted, item) ==
    LET ahead == {i \in 1..Len(sorted) : Total(sorted[i]) >= Total(item)}
        k == IF ahead = {} THEN 0 ELSE SetMax(ahead)
    IN  SubSeq(sorted, 1, k) \o <<item>> \o SubSeq(sorted, k + 1, Len(sorted))

\* sorted(ext_stats.items(), key=sort_key, reverse=True): stable
RECURSIVE SortedDesc(_)
SortedDesc(stats) ==
    IF stats = <<>>
    THEN <<>>
    ELSE InsertDesc(SortedDesc(SubSeq(stats, 1, Len(stats) - 1)), stats[Len(stats)])

Digit == <<"0", "1", "2", "3", "4", "5", "6", "7", "8", "9">>

\* an int formatted by an f-string
RECURSIVE Str(_)
Str(n) == IF n < 10 THEN <<Digit[n + 1]>> ELSE Str(n \div 10) \o <<Digit[(n % 10) + 1]>>

\* the lines printed before the rows
SummaryLines(stats) ==
    LET all_files == SumOf(stats, "files")
        all_code == SumOf(stats, "code")
        all_comment == SumOf(stats, "comment")
        all_blank == SumOf(stats, "blank")
        all_lines == all_code + all_comment + all_blank
    IN  << <<"T", "o", "t", "a", "l", " ", "f", "i", "l", "e", "s", ":", " ">> \o Str(all_files),
           <<"T", "o", "t", "a", "l", " ", "l", "i", "n", "e", "s", ":", " ">> \o Str(all_lines),
           <<"C", "o", "d", "e", " ", "l", "i", "n", "e", "s", ":", " ">> \o Str(all_code),
           <<"C", "o", "m", "m", "e", "n", "t", " ", "l", "i", "n", "e", "s", ":", " ">> \o Str(all_comment),
           <<"B", "l", "a", "n", "k", " ", "l", "i", "n", "e", "s", ":", " ">> \o Str(all_blank),
           <<>>,
           <<"L", "i", "n", "e", "s", " ", "b", "y", " ", "e", "x", "t", "e", "n", "s", "i", "o", "n", " ", "(", "c", "o", "d", "e", "/", "c", "o", "m", "m", "e", "n", "t", "/", "b", "l", "a", "n", "k", "/", "t", "o", "t", "a", "l", ",", " ", "f", "i", "l", "e", "s", ")", ":">> >>

\* the row printed for one extension
RowLine(st) ==
    st.ext \o <<"\t">> \o Str(st.code) \o <<"\t">> \o Str(st.comment) \o <<"\t">>
    \o Str(st.blank) \o <<"\t">> \o Str(Total(st)) \o <<"\t", "f", "i", "l", "e", "s", ":">> \o Str(st.files)

----------------------------------------------------------------------------
(* The directory tree the walk specification scans: each directory, as a path *)
(* below the root, with its entries in the order os.walk lists them          *)

Tree ==
    <<>> :>
      [dirs |-> <<"src", "node_modules", "data">>,
       files |-> <<
         [name |-> <<"a", ".", "p", "y">>,
           lines |-> <<<<"x", "\n">>, <<"#", "x", "\n">>, <<"\n">>>>, probe_ok |-> TRUE],
         [name |-> <<"T", "e", "s", "t", "_", "Z", ".", "p", "y">>,
           lines |-> <<<<"x", "\n">>>>, probe_ok |-> TRUE],
         [name |-> <<"M", "a", "k", "e", "f", "i", "l", "e">>,
           lines |-> <<<<"#", "x", "\n">>>>, probe_ok |-> TRUE] >>]
    @@ <<"src">> :>
      [dirs |-> <<"build">>,
       files |-> <<
         [name |-> <<"A", "p", "p", ".", "T", "S", "X">>,
           lines |-> <<<<"/", "*", "\n">>, <<"x", "\n">>, <<"*", "/", "x", "\n">>>>, probe_ok |-> TRUE],
         [name |-> <<"x", ".", "t", "e", "s", "t", ".", "t", "s">>,
           lines |-> <<<<"x", "\n">>>>, probe_ok |-> TRUE],
         [name |-> <<"b", "_", "t", "e", "s", "t", ".", "t", "s">>,
           lines |-> <<<<"x", "\n">>>>, probe_ok |-> TRUE],
         [name |-> <<"w", ".", "s", "p", "e", "c", ".", "t", "s", "x">>,
           lines |-> <<<<"x", "\n">>>>, probe_ok |-> TRUE],
         [name |-> <<"n", "o", "t", "e", "s", ".", "m", "d">>,
           lines |-> <<<<"x", "\n">>>>, probe_ok |-> TRUE],
         [name |-> <<"l", "o", "c", "k", "e", "d", ".", "t", "s">>,
           lines |-> <<<<"x", "\n">>>>, probe_ok |-> FALSE] >>]
    @@ <<"src", "build">> :>
      [dirs |-> <<>>,
       files |-> <<
         [name |-> <<"g", "e", "n", ".", "t", "s">>,
           lines |-> <<<<"x", "\n">>, <<"/", "*", "\n">>>>, probe_ok |-> TRUE] >>]
    @@ <<"node_modules">> :>
      [dirs |-> <<"dist">>,
       files |-> <<
         [name |-> <<"l", "i", "b", ".", "t", "s">>,
           lines |-> <<<<"x", "\n">>>>, probe_ok |-> TRUE] >>]
    @@ <<"node_modules", "dist">> :>
      [dirs |-> <<>>,
       files |-> <<
         [name |-> <<"d", ".", "p", "y">>,
           lines |-> <<<<"'", "'", "'", "x", "'", "'", "'", "\n">>>>, probe_ok |-> TRUE] >>]
    @@ <<"data">> :>
      [dirs |-> <<>>,
       files |-> <<
         [name |-> <<"b", "l", "o", "b", ".", "p", "y">>,
           lines |-> <<<<"x", NUL, "\n">>>>, probe_ok |-> TRUE],
         [name |-> <<"e", ".", "t", "s">>,
           lines |-> <<<<"/", "/", "x", "\n">>, <<"\n">>>>, probe_ok |-> TRUE] >>]

\* the basenames the scan root may have
RootNames == {"proj", "data"}

\* the names --include-dir and --exclude-dir may be given
IncludeChoices == {"data", "dist", "node_modules", "build"}
ExcludeChoices == {"src", "data"}

----------------------------------------------------------------------------
(* State *)

VARIABLES
    \* count_file
    path,           \* the name of the file being scanned
    scan_pc,        \* "off", "read" (at "for line in f"), "body" (a line is
                    \* bound), "next" (at the continue or the end of the body),
                    \* "returned"
    code, comment, blank,
    in_block_end,
    line,           \* the line of this iteration; dead once the loop goes on
    nread,          \* lines read so far
    verdict,        \* the counter the last line incremented ("none" before any)
    \* history of the scan, read by no step
    only_line_comments, \* every line so far began, trimmed, with a line prefix
    opener,         \* the line at which a bare start delimiter opened the block
                    \* that is pending or was closed by the last line, with the
                    \* counters before that line; NoOpener otherwise
    \* main
    pc,             \* "off", "walk", "files", "rows", "done", "aborted"
    root_name,      \* the basename of the resolved root
    include_dir, exclude_dir,
    skip_dirs,
    todo,           \* the directories os.walk has still to yield, next first
    dirpath,
    filenames,      \* the files of dirpath the inner loop has still to visit
    ext_stats,      \* the items of the dict, in insertion order
    rows,           \* the sorted items still to print
    output,         \* the lines written to standard output
    counted         \* the files passed to count_file and added to ext_stats

scan_vars == <<path, scan_pc, code, comment, blank, in_block_end, line, nread, verdict,
               only_line_comments, opener>>

main_vars == <<pc, root_name, include_dir, exclude_dir, skip_dirs, todo, dirpath,
               filenames, ext_stats, rows, output, counted>>

vars == <<scan_vars, main_vars>>

NoOpener == [at |-> 0, comment |-> 0, blank |-> 0]

ScanOff ==
    /\ only_line_comments = TRUE
    /\ opener = NoOpener
    /\ path = <<>>
    /\ scan_pc = "off"
    /\ code = 0 /\ comment = 0 /\ blank = 0
    /\ in_block_end = None
    /\ line = <<>>
    /\ nread = 0
    /\ verdict = "none"

MainOff ==
    /\ pc = "off"
    /\ root_name = ""
    /\ include_dir = {} /\ exclude_dir = {}
    /\ skip_dirs = {}
    /\ todo = <<>>
    /\ dirpath = <<>>
    /\ filenames = <<>>
    /\ ext_stats = <<>>
    /\ rows = <<>>
    /\ output = <<>>
    /\ counted = {}

----------------------------------------------------------------------------
(* count_file, line by line *)

ScanInit ==
    /\ path \in ScanNames
    /\ scan_pc = "read"
    /\ code = 0 /\ comment = 0 /\ blank = 0
    /\ in_block_end = None
    /\ line = <<>>
    /\ nread = 0
    /\ verdict = "none"
    /\ only_line_comments = TRUE
    /\ opener = NoOpener
    /\ MainOff

\* "for line in f" yields the next line
ReadLine ==
    /\ scan_pc = "read"
    /\ nread < MaxLines
    /\ line' \in LinesOf[path]
    /\ nread' = nread + 1
    /\ scan_pc' = "body"
    /\ UNCHANGED <<path, code, comment, blank, in_block_end, verdict,
                   only_line_comments, opener>>
    /\ UNCHANGED main_vars

\* the trimmed line begins with one of the prefixes
BeginsWithPrefix(raw, prefixes) ==
    \E i \in 1..Len(prefixes) : StartsWith(Strip(raw), prefixes[i])

\* the trimmed line is the start delimiter of one of the pairs, and nothing else
IsBareStart(raw, pairs) ==
    \E i \in 1..Len(pairs) : Strip(raw) = pairs[i][1]

\* ScanLine, were the loop body not to continue after a line in which a block
\* pair starts, and to fall through to the code += 1 at its end
ScanLine_FallsThrough ==
    /\ scan_pc = "body"
    /\ LET r == ClassifyLine(line, in_block_end, SpecOf[path])
           started == /\ Strip(line) # <<>>
                      /\ in_block_end = None
                      /\ ~LineCommentMatch(Strip(line), SpecOf[path].line)
                      /\ FirstStarted(Strip(line), SpecOf[path].block) # 0
       IN  /\ code' = Bump(code, r.verdict, "code") + (IF started THEN 1 ELSE 0)
           /\ comment' = Bump(comment, r.verdict, "comment")
           /\ blank' = Bump(blank, r.verdict, "blank")
           /\ in_block_end' = r.in_block_end
           /\ verdict' = r.verdict
           /\ opener' =
                IF in_block_end # None
                THEN opener
                ELSE IF r.in_block_end # None /\ IsBareStart(line, SpecOf[path].block)
                     THEN [at |-> nread, comment |-> comment, blank |-> blank]
                     ELSE NoOpener
    /\ only_line_comments' =
          (only_line_comments /\ BeginsWithPrefix(line, SpecOf[path].line))
    /\ scan_pc' = "next"
    /\ UNCHANGED <<path, line, nread>>
    /\ UNCHANGED main_vars

\* the loop body, up to its continue or its end
ScanLine ==
    /\ scan_pc = "body"
    /\ LET r == ClassifyLine(line, in_block_end, SpecOf[path])
       IN  /\ code' = Bump(code, r.verdict, "code")
           /\ comment' = Bump(comment, r.verdict, "comment")
           /\ blank' = Bump(blank, r.verdict, "blank")
           /\ in_block_end' = r.in_block_end
           /\ verdict' = r.verdict
           /\ opener' =
                IF in_block_end # None
                THEN opener
                ELSE IF r.in_block_end # None /\ IsBareStart(line, SpecOf[path].block)
                     THEN [at |-> nread, comment |-> comment, blank |-> blank]
                     ELSE NoOpener
    /\ only_line_comments' =
          (only_line_comments /\ BeginsWithPrefix(line, SpecOf[path].line))
    /\ scan_pc' = "next"
    /\ UNCHANGED <<path, line, nread>>
    /\ UNCHANGED main_vars

\* back to the head of the loop
Continue ==
    /\ scan_pc = "next"
    /\ scan_pc' = "read"
    /\ line' = <<>>
    /\ UNCHANGED <<path, code, comment, blank, in_block_end, nread, verdict,
                   only_line_comments, opener>>
    /\ UNCHANGED main_vars

\* the file is exhausted: return code, comment, blank
ScanReturn ==
    /\ scan_pc = "read"
    /\ scan_pc' = "returned"
    /\ UNCHANGED <<path, code, comment, blank, in_block_end, line, nread, verdict,
                   only_line_comments, opener>>
    /\ UNCHANGED main_vars

ScanNext == ReadLine \/ ScanLine \/ Continue \/ ScanReturn

SpecScan == ScanInit /\ [][ScanNext]_vars

\* the interpreter goes on as long as the scan has a step to take: the body of
\* the loop is straight-line code that always comes to its continue or its end,
\* the loop goes back to its head, and the iterator of a file, which is finite,
\* either yields a line or is exhausted
SpecScanFair ==
    SpecScan /\ []<>(scan_pc # "body") /\ WF_vars(Continue) /\ WF_vars(ScanReturn)

----------------------------------------------------------------------------
(* main *)

Init ==
    /\ ScanOff
    /\ pc = "walk"
    /\ root_name \in RootNames
    /\ include_dir \in SUBSET IncludeChoices
    /\ exclude_dir \in SUBSET ExcludeChoices
    /\ skip_dirs = SkipDirs(include_dir, exclude_dir)
    /\ todo = << <<>> >>
    /\ dirpath = <<>>
    /\ filenames = <<>>
    /\ ext_stats = <<>>
    /\ rows = <<>>
    /\ output = <<>>
    /\ counted = {}

args == <<root_name, include_dir, exclude_dir, skip_dirs>>

\* os.walk yields the next directory; its dirnames are pruned before the walk
\* descends into them
WalkDir ==
    /\ pc = "walk"
    /\ todo # <<>>
    /\ LET d == Head(todo)
           dirnames == Prune(Tree[d].dirs, skip_dirs)
       IN  /\ dirpath' = d
           /\ filenames' = Tree[d].files
           /\ todo' = [i \in 1..Len(dirnames) |-> Append(d, dirnames[i])] \o Tail(todo)
    /\ pc' = "files"
    /\ UNCHANGED <<args, ext_stats, rows, output, counted>>
    /\ UNCHANGED scan_vars

\* ext not in ALLOWED_EXTS: continue
SkipExtension ==
    /\ pc = "files"
    /\ filenames # <<>>
    /\ ~ExtAllowed(Head(filenames).name)
    /\ filenames' = Tail(filenames)
    /\ UNCHANGED <<pc, args, todo, dirpath, ext_stats, rows, output, counted>>
    /\ UNCHANGED scan_vars

\* the stem is a test-file name: continue
SkipTestName ==
    /\ pc = "files"
    /\ filenames # <<>>
    /\ ExtAllowed(Head(filenames).name)
    /\ IsTestName(Head(filenames).name)
    /\ filenames' = Tail(filenames)
    /\ UNCHANGED <<pc, args, todo, dirpath, ext_stats, rows, output, counted>>
    /\ UNCHANGED scan_vars

\* is_binary(str(path)): continue
SkipBinary ==
    /\ pc = "files"
    /\ filenames # <<>>
    /\ ExtAllowed(Head(filenames).name)
    /\ ~IsTestName(Head(filenames).name)
    /\ is_binary(Head(filenames))
    /\ filenames' = Tail(filenames)
    /\ UNCHANGED <<pc, args, todo, dirpath, ext_stats, rows, output, counted>>
    /\ UNCHANGED scan_vars

\* CountFile, were in_block_end a variable of the module that count_file does
\* not set to None when it begins
CountFile_KeepsBlockState ==
    /\ pc = "files"
    /\ filenames # <<>>
    /\ ExtAllowed(Head(filenames).name)
    /\ ~IsTestName(Head(filenames).name)
    /\ ~is_binary(Head(filenames))
    /\ LET file == Head(filenames)
           st == ScanFrom(file.lines, 1,
                          [code |-> 0, comment |-> 0, blank |-> 0,
                           in_block_end |-> in_block_end],
                          get_spec(file.name))
       IN  /\ ext_stats' = Accumulate(ext_stats, KeyOf(file.name),
                                      <<st.code, st.comment, st.blank>>)
           /\ counted' = counted \cup {<<dirpath, file.name>>}
           /\ path' = file.name
           /\ code' = st.code /\ comment' = st.comment /\ blank' = st.blank
           /\ in_block_end' = st.in_block_end
           /\ nread' = Len(file.lines)
    /\ scan_pc' = "returned"
    /\ filenames' = Tail(filenames)
    /\ UNCHANGED <<pc, args, todo, dirpath, rows, output>>
    /\ UNCHANGED <<line, verdict, only_line_comments, opener>>

\* code, comment, blank = count_file(path), added to ext_stats[key]; the scan
\* variables are left as the call left its locals
CountFile ==
    /\ pc = "files"
    /\ filenames # <<>>
    /\ ExtAllowed(Head(filenames).name)
    /\ ~IsTestName(Head(filenames).name)
    /\ ~is_binary(Head(filenames))
    /\ LET file == Head(filenames)
           st == ScanAll(file.name, file.lines)
       IN  /\ ext_stats' = Accumulate(ext_stats, KeyOf(file.name),
                                      count_file(file.name, file.lines))
           /\ counted' = counted \cup {<<dirpath, file.name>>}
           /\ path' = file.name
           /\ code' = st.code /\ comment' = st.comment /\ blank' = st.blank
           /\ in_block_end' = st.in_block_end
           /\ nread' = Len(file.lines)
    /\ scan_pc' = "returned"
    /\ filenames' = Tail(filenames)
    /\ UNCHANGED <<pc, args, todo, dirpath, rows, output>>
    /\ UNCHANGED <<line, verdict, only_line_comments, opener>>

\* CountFileRaises, were the report printed on the way out
CountFileRaises_ReportsAnyway ==
    /\ pc = "files"
    /\ filenames # <<>>
    /\ ExtAllowed(Head(filenames).name)
    /\ ~IsTestName(Head(filenames).name)
    /\ ~is_binary(Head(filenames))
    /\ pc' = "aborted"
    /\ output' = output \o SummaryLines(ext_stats)
    /\ UNCHANGED <<args, todo, dirpath, filenames, ext_stats, rows, counted>>
    /\ UNCHANGED scan_vars

\* open or a read in count_file raises (the file went away or lost its read
\* permission after the probe): the exception ends the run
CountFileRaises ==
    /\ pc = "files"
    /\ filenames # <<>>
    /\ ExtAllowed(Head(filenames).name)
    /\ ~IsTestName(Head(filenames).name)
    /\ ~is_binary(Head(filenames))
    /\ pc' = "aborted"
    /\ UNCHANGED <<args, todo, dirpath, filenames, ext_stats, rows, output, counted>>
    /\ UNCHANGED scan_vars

\* the inner loop is through: back to os.walk
DirDone ==
    /\ pc = "files"
    /\ filenames = <<>>
    /\ pc' = "walk"
    /\ UNCHANGED <<args, todo, dirpath, filenames, ext_stats, rows, output, counted>>
    /\ UNCHANGED scan_vars

\* the walk is through: the totals and the header are printed, the items sorted
PrintSummary ==
    /\ pc = "walk"
    /\ todo = <<>>
    /\ output' = output \o SummaryLines(ext_stats)
    /\ rows' = SortedDesc(ext_stats)
    /\ pc' = "rows"
    /\ UNCHANGED <<args, todo, dirpath, filenames, ext_stats, counted>>
    /\ UNCHANGED scan_vars

PrintRow ==
    /\ pc = "rows"
    /\ rows # <<>>
    /\ output' = Append(output, RowLine(Head(rows)))
    /\ rows' = Tail(rows)
    /\ UNCHANGED <<pc, args, todo, dirpath, filenames, ext_stats, counted>>
    /\ UNCHANGED scan_vars

Exit ==
    /\ pc = "rows"
    /\ rows = <<>>
    /\ pc' = "done"
    /\ UNCHANGED <<args, todo, dirpath, filenames, ext_stats, rows, output, counted>>
    /\ UNCHANGED scan_vars

Next ==
    \/ WalkDir
    \/ SkipExtension
    \/ SkipTestName
    \/ SkipBinary
    \/ CountFile
    \/ CountFileRaises
    \/ DirDone
    \/ PrintSummary
    \/ PrintRow
    \/ Exit

Spec == Init /\ [][Next]_vars

----------------------------------------------------------------------------
(* Properties of count_file, checked under SpecScan *)

\* the line holds nothing but whitespace
IsBlankLine(raw) == \A i \in 1..Len(raw) : raw[i] \in Whitespace

\* neither the name nor the extension has an entry in the tables
HasNoSpec(name) ==
    /\ Lower(name) \notin DOMAIN SPEC_BY_NAME
    /\ Lower(Suffix(name)) \notin DOMAIN SPEC_BY_EXT

\* the trimmed line begins with start and ends with end, the two not overlapping
OneLineBlock(raw, start, end) ==
    /\ StartsWith(Strip(raw), start)
    /\ EndsWith(Strip(raw), end)
    /\ Len(Strip(raw)) >= Len(start) + Len(end)

\* after the start delimiter that begins the trimmed line, the end delimiter
\* occurs for the first time at the very end of the line
ClosesOnlyAtEnd(raw, start, end) ==
    Find(From(Strip(raw), Len(start)), end) = Len(Strip(raw)) - Len(start) - Len(end)

\* no pair declared before pair k has its start delimiter in the line
NoEarlierStart(raw, pairs, k) ==
    \A j \in 1..(k - 1) : ~Contains(Strip(raw), pairs[j][1])

\* some character that is not whitespace follows the first occurrence of end
TextAfterFirst(t, end) ==
    \E i \in 1..(Len(t) - Len(end) + 1) :
        /\ SubSeq(t, i, i + Len(end) - 1) = end
        /\ \A h \in 1..(i - 1) : SubSeq(t, h, h + Len(end) - 1) # end
        /\ \E j \in (i + Len(end))..Len(t) : t[j] \notin Whitespace

\* C1: a line that is empty after trimming increments blank by exactly 1, leaves
\* code and comment alone and leaves the block state as it was, whether or not a
\* close delimiter is pending.
C1_BlankLineIsBlank ==
    [][(scan_pc = "body" /\ IsBlankLine(line))
          => /\ blank' = blank + 1
             /\ code' = code
             /\ comment' = comment
             /\ in_block_end' = in_block_end]_vars

C1_Witness ==
    /\ scan_pc = "next"
    /\ IsBlankLine(line)
    /\ blank >= 1
    /\ in_block_end # None

\* C2, as stated: a blank line read while a close delimiter is pending is counted
\* as Comment.
C2_BlankInBlockIsComment ==
    [][(scan_pc = "body" /\ IsBlankLine(line) /\ in_block_end # None)
          => (comment' = comment + 1 /\ blank' = blank)]_vars

\* C2, amended: a blank line read while a close delimiter is pending is counted
\* as Blank, not as Comment, and the delimiter stays pending.
C2_BlankInBlockIsBlank ==
    [][(scan_pc = "body" /\ IsBlankLine(line) /\ in_block_end # None)
          => /\ verdict' = "blank"
             /\ comment' = comment
             /\ blank' = blank + 1
             /\ in_block_end' # None]_vars

C2_Witness ==
    /\ scan_pc = "next"
    /\ IsBlankLine(line)
    /\ verdict = "blank"
    /\ opener.at # 0
    /\ in_block_end # None
    /\ comment >= 1

\* C3: in a file whose name and extension have no comment spec, no line is a
\* Comment: a blank line increments blank, any other line increments code, so
\* after each line code + blank is the number of lines read and comment is 0.
C3_NoSpecNoComments ==
    [][(scan_pc = "body" /\ HasNoSpec(path))
          => /\ comment' = 0
             /\ IF IsBlankLine(line)
                THEN blank' = blank + 1 /\ code' = code
                ELSE code' = code + 1 /\ blank' = blank
             /\ code' + blank' = nread]_vars

C3_Witness ==
    /\ scan_pc = "next"
    /\ HasNoSpec(path)
    /\ Contains(line, Hash)
    /\ verdict = "code"
    /\ blank >= 1
    /\ code >= 2

\* C4: with a spec that has a line prefix, as long as every line read began,
\* trimmed, with a line prefix, code and blank are 0, comment is the number of
\* lines read and no close delimiter is pending, also when a line holds a block
\* delimiter behind its prefix.
C4_OnlyLineComments ==
    (/\ scan_pc \in {"next", "read", "returned"}
     /\ SpecOf[path].line # <<>>
     /\ only_line_comments)
        => /\ code = 0
           /\ blank = 0
           /\ comment = nread
           /\ in_block_end = None

C4_Witness ==
    /\ scan_pc = "next"
    /\ only_line_comments
    /\ nread >= 2
    /\ \E k \in 1..Len(SpecOf[path].block) : Contains(line, SpecOf[path].block[k][1])
    /\ comment = nread

\* C5, as stated: outside a block, a line that is, trimmed, a start delimiter of
\* any pair of the spec, any text and the matching end delimiter, which closes
\* the comment at the end of the line, is one Comment line and leaves no
\* delimiter pending.
C5_OneLineBlockIsComment ==
    [][(/\ scan_pc = "body"
        /\ in_block_end = None
        /\ \E k \in 1..Len(SpecOf[path].block) :
              /\ OneLineBlock(line, SpecOf[path].block[k][1], SpecOf[path].block[k][2])
              /\ ClosesOnlyAtEnd(line, SpecOf[path].block[k][1], SpecOf[path].block[k][2]))
          => /\ comment' = comment + 1
             /\ code' = code
             /\ blank' = blank
             /\ in_block_end' = None]_vars

\* C5, amended: the same, provided no pair declared earlier has its start
\* delimiter anywhere in the line.
C5_OneLineBlockClosedAtEnd ==
    [][(/\ scan_pc = "body"
        /\ in_block_end = None
        /\ \E k \in 1..Len(SpecOf[path].block) :
              /\ OneLineBlock(line, SpecOf[path].block[k][1], SpecOf[path].block[k][2])
              /\ ClosesOnlyAtEnd(line, SpecOf[path].block[k][1], SpecOf[path].block[k][2])
              /\ NoEarlierStart(line, SpecOf[path].block, k))
          => /\ comment' = comment + 1
             /\ code' = code
             /\ blank' = blank
             /\ in_block_end' = None]_vars

C5_Witness ==
    /\ scan_pc = "next"
    /\ Strip(line) = Dq3 \o <<"x">> \o Dq3
    /\ nread = 1
    /\ verdict = "comment"
    /\ in_block_end = None

\* C6, as stated: when the block opened by a bare start delimiter on line i is
\* closed by a later line j that has no text before the end delimiter, line j is
\* a Comment and lines i to j have added j - i + 1 to comment.
C6_SpanAllComment ==
    [][(/\ scan_pc = "body"
        /\ opener.at # 0
        /\ in_block_end # None
        /\ StartsWith(Strip(line), in_block_end))
          => /\ comment' = comment + 1
             /\ comment' - opener.comment = nread - opener.at + 1
             /\ in_block_end' = None]_vars

\* C6, amended: a bare start delimiter read outside a block is a Comment and
\* makes its end delimiter pending; every line after it that is not blank and
\* does not hold the end delimiter is a Comment; a later line j that is, trimmed,
\* the end delimiter alone is a Comment and clears the block state; lines i to j
\* have then added j - i + 1 to comment, less the blank lines between them.
C6_SpanCommentsButBlanks ==
    [][(scan_pc = "body")
          => /\ (in_block_end = None /\ IsBareStart(line, SpecOf[path].block))
                   => /\ comment' = comment + 1
                      /\ \E k \in 1..Len(SpecOf[path].block) :
                            /\ Strip(line) = SpecOf[path].block[k][1]
                            /\ in_block_end' = SpecOf[path].block[k][2]
             /\ (/\ opener.at # 0
                 /\ in_block_end # None
                 /\ ~IsBlankLine(line)
                 /\ ~Contains(Strip(line), in_block_end))
                   => (comment' = comment + 1 /\ in_block_end' = in_block_end)
             /\ (opener.at # 0 /\ in_block_end # None /\ Strip(line) = in_block_end)
                   => /\ comment' = comment + 1
                      /\ in_block_end' = None
                      /\ comment' - opener.comment
                            = (nread - opener.at + 1) - (blank - opener.blank)]_vars

C6_Witness ==
    /\ scan_pc = "next"
    /\ opener.at = 1
    /\ nread = 3
    /\ Strip(line) = CEnd
    /\ in_block_end = None
    /\ comment = 3

\* the file of the example: "/* start", "middle", "end */ tail"
ExampleName == <<"e", "x", "a", "m", "p", "l", "e", ".", "t", "s">>

ExampleLines ==
    << <<"/", "*", " ", "s", "t", "a", "r", "t", "\n">>,
       <<"m", "i", "d", "d", "l", "e", "\n">>,
       <<"e", "n", "d", " ", "*", "/", " ", "t", "a", "i", "l", "\n">> >>

\* C7: while a close delimiter is pending, a line that is not blank and does not
\* hold it is a Comment and leaves it pending; one that holds it clears the block
\* state and is Code if text follows the first occurrence of the delimiter,
\* Comment otherwise; the example file gives code 1, comment 2, blank 0.
C7_InsideBlock ==
    [][/\ count_file(ExampleName, ExampleLines) = <<1, 2, 0>>
       /\ (scan_pc = "body" /\ in_block_end # None /\ ~IsBlankLine(line))
             => /\ blank' = blank
                /\ IF ~Contains(Strip(line), in_block_end)
                   THEN /\ comment' = comment + 1
                        /\ code' = code
                        /\ in_block_end' = in_block_end
                   ELSE /\ in_block_end' = None
                        /\ IF TextAfterFirst(Strip(line), in_block_end)
                           THEN code' = code + 1 /\ comment' = comment
                           ELSE comment' = comment + 1 /\ code' = code]_vars

C7_Witness ==
    /\ scan_pc = "next"
    /\ opener.at = 1
    /\ nread = 3
    /\ Strip(line) = CEnd \o <<"x">>
    /\ in_block_end = None
    /\ code = 1 /\ comment = 2 /\ blank = 0

\* pair k is the first pair, in declaration order, whose start delimiter occurs
\* in the trimmed line
FirstPairIn(raw, pairs, k) ==
    /\ Contains(Strip(raw), pairs[k][1])
    /\ \A j \in 1..(k - 1) : ~Contains(Strip(raw), pairs[j][1])

\* the trimmed line has text before the first occurrence of start
TextBefore(raw, start) == Find(Strip(raw), start) > 0

\* C15, as stated: outside a block, a line in which the first pair, in
\* declaration order, whose start delimiter occurs has text before that start
\* delimiter is Code and leaves no delimiter pending.
C15_CodeBeforeOpenerIsCode ==
    [][(/\ scan_pc = "body"
        /\ in_block_end = None
        /\ \E k \in 1..Len(SpecOf[path].block) :
              /\ FirstPairIn(line, SpecOf[path].block, k)
              /\ TextBefore(line, SpecOf[path].block[k][1]))
          => /\ code' = code + 1
             /\ comment' = comment
             /\ blank' = blank
             /\ in_block_end' = None]_vars

\* C15, amended: the same, provided the trimmed line does not begin with a line
\* prefix of the spec; a line that does is a Comment, whatever block delimiter
\* follows the prefix, and leaves no delimiter pending either.
C15_CodeBeforeOpenerUnlessPrefixed ==
    [][(/\ scan_pc = "body"
        /\ in_block_end = None
        /\ \E k \in 1..Len(SpecOf[path].block) :
              /\ FirstPairIn(line, SpecOf[path].block, k)
              /\ TextBefore(line, SpecOf[path].block[k][1]))
          => /\ blank' = blank
             /\ in_block_end' = None
             /\ IF BeginsWithPrefix(line, SpecOf[path].line)
                THEN comment' = comment + 1 /\ code' = code
                ELSE code' = code + 1 /\ comment' = comment]_vars

\* code, then a block comment that is opened and not closed on the line: the
\* line is Code and no delimiter is pending after it
C15_Witness ==
    /\ scan_pc = "next"
    /\ Strip(line) = <<"x">> \o CStart
    /\ SpecOf[path].block = << <<CStart, CEnd>> >>
    /\ verdict = "code"
    /\ code = nread
    /\ nread = 2
    /\ in_block_end = None

\* the spec with pair k as its only block pair
OnlyPair(spec, k) == [line |-> spec.line, block |-> <<spec.block[k]>>]

\* C16: a line read outside a block is classified by the first pair, in
\* declaration order, whose start delimiter occurs anywhere in the trimmed line,
\* as if the spec had no other pair, also when the start delimiter of a later
\* pair comes earlier in the line; the only delimiter the line can leave pending
\* is the end delimiter of that pair.
C16_FirstDeclaredPairDecides ==
    [][(scan_pc = "body" /\ in_block_end = None)
          => \A k \in 1..Len(SpecOf[path].block) :
                FirstPairIn(line, SpecOf[path].block, k)
                  => /\ verdict' = ClassifyLine(line, None, OnlyPair(SpecOf[path], k)).verdict
                     /\ in_block_end'
                           = ClassifyLine(line, None, OnlyPair(SpecOf[path], k)).in_block_end
                     /\ in_block_end' \in {None, SpecOf[path].block[k][2]}
                     /\ (~BeginsWithPrefix(line, SpecOf[path].line)
                           /\ TextBefore(line, SpecOf[path].block[k][1]))
                          => (verdict' = "code" /\ in_block_end' = None)]_vars

\* the start delimiter of the second pair begins the line, that of the first
\* pair follows it: the first pair decides, the line is Code
C16_Witness ==
    /\ scan_pc = "next"
    /\ Len(SpecOf[path].block) = 2
    /\ Strip(line) = SpecOf[path].block[2][1] \o SpecOf[path].block[1][1]
    /\ SpecOf[path].block[2][1] # SpecOf[path].block[1][1]
    /\ verdict = "code"
    /\ nread = 1
    /\ in_block_end = None

\* C18: outside a block the line prefixes are tried before the block pairs: a
\* line that begins, trimmed, with a line prefix is a Comment and leaves no
\* delimiter pending, also when a start delimiter without its end follows the
\* prefix.  Inside a block the pending close delimiter is searched first: a line
\* that begins with a line prefix and holds the close delimiter with text after
\* it is Code and ends the block.
C18_PrefixFirstOutsideCloseFirstInside ==
    [][(scan_pc = "body" /\ BeginsWithPrefix(line, SpecOf[path].line))
          => /\ in_block_end = None
                   => /\ verdict' = "comment"
                      /\ comment' = comment + 1
                      /\ code' = code
                      /\ blank' = blank
                      /\ in_block_end' = None
             /\ (in_block_end # None /\ TextAfterFirst(Strip(line), in_block_end))
                   => /\ verdict' = "code"
                      /\ code' = code + 1
                      /\ comment' = comment
                      /\ blank' = blank
                      /\ in_block_end' = None]_vars

\* a block opened on line 2, after a Comment line read outside it, is closed
\* on line 3 by a line that begins with the line prefix: that line is Code
C18_Witness ==
    /\ scan_pc = "next"
    /\ nread = 3
    /\ opener.at = 2
    /\ BeginsWithPrefix(line, SpecOf[path].line)
    /\ Strip(line) = PsEnd \o <<"x">>
    /\ verdict = "code"
    /\ <<code, comment, blank>> = <<1, 2, 0>>
    /\ in_block_end = None

\* C19: every line read gets one verdict: whenever the scan is between two
\* lines or has returned, code + comment + blank is the number of lines read;
\* the body of the loop adds 1 to exactly one of the three counters; no counter
\* ever decreases; and the scan comes to its return, where the three counters
\* add up to the number of lines of the file.
C19_OneVerdictPerLine ==
    /\ [](/\ scan_pc \in {"read", "next", "returned"} => code + comment + blank = nread
          /\ scan_pc = "body" => code + comment + blank = nread - 1)
    /\ [][scan_pc = "body"
             => /\ verdict' \in {"code", "comment", "blank"}
                /\ \/ code' = code + 1 /\ comment' = comment /\ blank' = blank
                   \/ code' = code /\ comment' = comment + 1 /\ blank' = blank
                   \/ code' = code /\ comment' = comment /\ blank' = blank + 1]_vars
    /\ [][/\ code' >= code /\ comment' >= comment /\ blank' >= blank
          /\ scan_pc # "body" => <<code, comment, blank>>' = <<code, comment, blank>>]_vars
    /\ <>(scan_pc = "returned")

\* the scan has returned from a file with a line of each kind
C19_Witness ==
    /\ scan_pc = "returned"
    /\ nread = 3
    /\ <<code, comment, blank>> = <<1, 1, 1>>

\* the end delimiters of the pairs of a spec
EndsOf(spec) == {spec.block[i][2] : i \in 1..Len(spec.block)}

\* C20: in_block_end is always None or the end delimiter of a pair of the
\* file's spec, and None throughout under a spec without pairs.  It goes from
\* None to a delimiter only in the loop body, on a line that is not blank,
\* begins, trimmed, with the start delimiter of that pair and has no end
\* delimiter of the pair after it; from a delimiter to None only on a line that
\* is not blank and holds that delimiter; and never from one delimiter to
\* another.
C20_BlockStateValues ==
    /\ [](in_block_end \in {None} \cup EndsOf(SpecOf[path]))
    /\ [](SpecOf[path].block = <<>> => in_block_end = None)
    /\ [][(in_block_end = None /\ in_block_end' # None)
             => /\ scan_pc = "body"
                /\ ~IsBlankLine(line)
                /\ \E k \in 1..Len(SpecOf[path].block) :
                      /\ in_block_end' = SpecOf[path].block[k][2]
                      /\ StartsWith(Strip(line), SpecOf[path].block[k][1])
                      /\ ~Contains(From(Strip(line), Len(SpecOf[path].block[k][1])),
                                   SpecOf[path].block[k][2])]_vars
    /\ [][(in_block_end # None /\ in_block_end' = None)
             => /\ scan_pc = "body"
                /\ ~IsBlankLine(line)
                /\ Contains(Strip(line), in_block_end)]_vars
    /\ [][(in_block_end # None /\ in_block_end' # None)
             => in_block_end' = in_block_end]_vars

\* the third line begins with the start delimiter of the second pair and does
\* not close it: the end delimiter of that pair is pending
C20_Witness ==
    /\ scan_pc = "next"
    /\ Len(SpecOf[path].block) = 2
    /\ in_block_end = SpecOf[path].block[2][2]
    /\ Strip(line) = SpecOf[path].block[2][1] \o <<"x">>
    /\ nread = 3
    /\ opener = NoOpener
    /\ <<code, comment, blank>> = <<1, 2, 0>>

\* C13: the spec of a file is the entry of its lowercased name in SPEC_BY_NAME
\* if there is one, whatever its extension; otherwise the entry of its
\* lowercased extension in SPEC_BY_EXT if there is one; otherwise the spec with
\* no line prefix and no block pair.  Every name has a spec.
C13_NameThenExtThenEmpty ==
    /\ path \in DOMAIN SpecOf
    /\ DOMAIN SpecOf[path] = {"line", "block"}
    /\ Lower(path) \in DOMAIN SPEC_BY_NAME
          => SpecOf[path] = SPEC_BY_NAME[Lower(path)]
    /\ (Lower(path) \notin DOMAIN SPEC_BY_NAME /\ Lower(Suffix(path)) \in DOMAIN SPEC_BY_EXT)
          => SpecOf[path] = SPEC_BY_EXT[Lower(Suffix(path))]
    /\ (Lower(path) \notin DOMAIN SPEC_BY_NAME /\ Lower(Suffix(path)) \notin DOMAIN SPEC_BY_EXT)
          => (SpecOf[path].line = <<>> /\ SpecOf[path].block = <<>>)
    /\ path = <<"a", ".", "p", "y">>
          => SpecOf[path] = [line |-> << <<"#">> >>,
                             block |-> << << <<"'", "'", "'">>, <<"'", "'", "'">> >>,
                                          << <<"\"", "\"", "\"">>, <<"\"", "\"", "\"">> >> >>]
    /\ path = <<"B", ".", "T", "S">>
          => SpecOf[path] = [line |-> << <<"/", "/">> >>,
                             block |-> << << <<"/", "*">>, <<"*", "/">> >> >>]
    /\ path \in {<<"M", "a", "k", "e", "f", "i", "l", "e">>,
                  <<".", "E", "n", "v", ".", "e", "x", "a", "m", "p", "l", "e">>}
          => SpecOf[path] = [line |-> << <<"#">> >>, block |-> <<>>]
    /\ path \in {<<"r", ".", "z", "z">>, <<"n", "o", "t", "e", "s">>}
          => SpecOf[path] = [line |-> <<>>, block |-> <<>>]

\* a file whose name is in SPEC_BY_NAME and whose extension is in SPEC_BY_EXT was
\* scanned with the spec of its name
C13_Witness ==
    /\ scan_pc = "next"
    /\ Lower(path) \in DOMAIN SPEC_BY_NAME
    /\ path \notin DOMAIN SPEC_BY_NAME
    /\ Lower(Suffix(path)) \in DOMAIN SPEC_BY_EXT
    /\ StartsWith(Strip(line), Hash)
    /\ verdict = "comment"

----------------------------------------------------------------------------
(* Properties of main, checked under Spec *)

\* the files of the tree, each as its directory below the root and its entry
AllFiles ==
    UNION {{<<d, file>> : file \in SeqRange(Tree[d].files)} : d \in DOMAIN Tree}

\* the files of AllFiles with these names
FilesNamed(names) == {<<f[1], f[2].name>> : f \in {g \in AllFiles : g[2].name \in names}}

\* the file passes the extension, test-name and binary filters
PassesFilters(file) ==
    /\ ExtAllowed(file.name)
    /\ ~IsTestName(file.name)
    /\ ~is_binary(file)

\* the walk has come to its end
WalkOver == pc \in {"rows", "done"}

EffectiveSkip == (SKIP_DIRS_DEFAULT \ include_dir) \cup exclude_dir

\* C8, as stated: a file in a directory named in the default skip-set is never
\* counted, unless the name is passed with --include-dir; then the file is
\* counted by the end of the walk if it passes the filters.
C8_DefaultSkipAndInclude ==
    \A f \in AllFiles : \A d \in SeqRange(f[1]) :
        d \in SKIP_DIRS_DEFAULT
          => /\ d \notin include_dir => <<f[1], f[2].name>> \notin counted
             /\ (d \in include_dir /\ WalkOver /\ PassesFilters(f[2]))
                   => <<f[1], f[2].name>> \in counted

\* C8, amended: a file in a directory below the root named in the default
\* skip-set is never counted, unless the name is passed with --include-dir; then
\* the file is counted by the end of the walk if it passes the filters, the name
\* is not passed with --exclude-dir too, and no other directory between the root
\* and the file is in the skip-set the arguments leave.
C8_SkipUnlessReallyIncluded ==
    \A f \in AllFiles : \A d \in SeqRange(f[1]) :
        d \in SKIP_DIRS_DEFAULT
          => /\ d \notin include_dir => <<f[1], f[2].name>> \notin counted
             /\ (/\ d \in include_dir
                 /\ d \notin exclude_dir
                 /\ \A e \in SeqRange(f[1]) : e \notin EffectiveSkip
                 /\ WalkOver
                 /\ PassesFilters(f[2]))
                   => <<f[1], f[2].name>> \in counted

C8_Witness ==
    /\ pc = "done"
    /\ root_name = "data"
    /\ <<<<>>, <<"a", ".", "p", "y">>>> \in counted
    /\ include_dir = {"data"}
    /\ exclude_dir = {}
    /\ <<<<"data">>, <<"e", ".", "t", "s">>>> \in counted
    /\ <<<<"node_modules">>, <<"l", "i", "b", ".", "t", "s">>>> \notin counted

\* C9: only files with an allowed lowercased extension, a lowercased stem that is
\* no test-file name and no NUL in the probed bytes are counted; every key of
\* ext_stats is an allowed extension, never the key of extensionless files.
C9_OnlyEligibleCounted ==
    /\ \A f \in AllFiles :
          <<f[1], f[2].name>> \in counted
            => /\ Lower(Suffix(f[2].name)) \in {<<".", "p", "y">>, <<".", "t", "s">>, <<".", "t", "s", "x">>}
               /\ ~StartsWith(Lower(Stem(f[2].name)), <<"t", "e", "s", "t", "_">>)
               /\ ~EndsWith(Lower(Stem(f[2].name)), <<"_", "t", "e", "s", "t">>)
               /\ ~EndsWith(Lower(Stem(f[2].name)), <<".", "t", "e", "s", "t">>)
               /\ ~EndsWith(Lower(Stem(f[2].name)), <<".", "s", "p", "e", "c">>)
               /\ f[2].probe_ok
               /\ NUL \notin SeqRange(Flatten(f[2].lines))
    /\ counted \cap FilesNamed({<<"T", "e", "s", "t", "_", "Z", ".", "p", "y">>, <<"x", ".", "t", "e", "s", "t", ".", "t", "s">>, <<"b", "_", "t", "e", "s", "t", ".", "t", "s">>, <<"w", ".", "s", "p", "e", "c", ".", "t", "s", "x">>, <<"n", "o", "t", "e", "s", ".", "m", "d">>,
                                <<"M", "a", "k", "e", "f", "i", "l", "e">>, <<"l", "o", "c", "k", "e", "d", ".", "t", "s">>, <<"b", "l", "o", "b", ".", "p", "y">>}) = {}
    /\ \A i \in 1..Len(ext_stats) :
          ext_stats[i].ext \in ALLOWED_EXTS /\ ext_stats[i].ext # NoneKey

C9_Witness ==
    /\ pc = "done"
    /\ <<<<"src">>, <<"A", "p", "p", ".", "T", "S", "X">>>> \in counted
    /\ <<<<>>, <<"a", ".", "p", "y">>>> \in counted
    /\ Len(ext_stats) = 3

\* the lines of the output that begin with this text
LinesBeginning(text) == {i \in 1..Len(output) : StartsWith(output[i], text)}

\* C10: nothing is printed before the walk is over, so a run that count_file
\* aborts leaves the output empty; a run that completes has printed the summary
\* once: the seven lines of the header, then one row for each extension counted.
C10_ReportAllOrNothing ==
    /\ pc \in {"walk", "files", "aborted"} => output = <<>>
    /\ output # <<>> => (WalkOver /\ todo = <<>> /\ filenames = <<>>)
    /\ pc = "rows" => Len(output) = 7 + Len(ext_stats) - Len(rows)
    /\ pc = "done"
          => /\ Len(output) = 7 + Len(ext_stats)
             /\ output[1] = <<"T", "o", "t", "a", "l", " ", "f", "i", "l", "e", "s", ":", " ">> \o Str(Cardinality(counted))
             /\ LinesBeginning(<<"T", "o", "t", "a", "l", " ", "f", "i", "l", "e", "s", ":", " ">>) = {1}
             /\ LinesBeginning(<<"T", "o", "t", "a", "l", " ", "l", "i", "n", "e", "s", ":", " ">>) = {2}
             /\ \A i \in 1..Len(ext_stats) :
                   Cardinality(LinesBeginning(ext_stats[i].ext \o <<"\t">>)) = 1

C10_Witness ==
    /\ pc = "aborted"
    /\ Cardinality(counted) >= 2
    /\ output = <<>>

\* the next file of the inner loop can be opened by nobody: the probe raises
ProbeFails ==
    /\ pc = "files"
    /\ filenames # <<>>
    /\ ExtAllowed(Head(filenames).name)
    /\ ~IsTestName(Head(filenames).name)
    /\ ~Head(filenames).probe_ok

\* C11: when the probe of a file raises, is_binary returns true and the file is
\* skipped: ext_stats and the set of counted files stay as they were, nothing is
\* printed, the run is not aborted and the inner loop goes on with the file
\* after it.
C11_FailedProbeSkips ==
    [][ProbeFails
          => /\ is_binary(Head(filenames))
             /\ ext_stats' = ext_stats
             /\ counted' = counted
             /\ output' = output
             /\ pc' = "files"
             /\ filenames' = Tail(filenames)
             /\ <<todo, dirpath>>' = <<todo, dirpath>>]_vars

C11_Witness ==
    /\ pc = "done"
    /\ <<<<"src">>, <<"A", "p", "p", ".", "T", "S", "X">>>> \in counted
    /\ <<<<"src">>, <<"l", "o", "c", "k", "e", "d", ".", "t", "s">>>> \notin counted
    /\ <<<<"data">>, <<"e", ".", "t", "s">>>> \in counted
    /\ Len(output) = 10

\* the counted files whose lowercased extension is ext
CountedWith(ext) ==
    {f \in AllFiles : <<f[1], f[2].name>> \in counted /\ Lower(Suffix(f[2].name)) = ext}

\* the sum, over a set of files, of one of the three counts of count_file
RECURSIVE SumCounts(_, _)
SumCounts(files, which) ==
    IF files = {}
    THEN 0
    ELSE LET f == CHOOSE g \in files : TRUE
         IN  count_file(f[2].name, f[2].lines)[which] + SumCounts(files \ {f}, which)

\* all the counted files
CountedFiles == {f \in AllFiles : <<f[1], f[2].name>> \in counted}

\* the item of ext_stats whose row is the i-th row of the output
RowStat(i) == CHOOSE st \in SeqRange(ext_stats) : RowLine(st) = output[7 + i]

\* C12: for each key of ext_stats, files is the number of counted files with
\* that lowercased extension and code, comment and blank are the sums of the
\* counts of those files; the totals printed are the sums over all keys, the
\* total of lines being code + comment + blank; the rows come out in descending
\* order of code + comment + blank.
C12_SumsTotalsAndOrder ==
    /\ \A f \in CountedFiles : KeyIndex(ext_stats, Lower(Suffix(f[2].name))) # 0
    /\ \A i \in 1..Len(ext_stats) :
          /\ ext_stats[i].files = Cardinality(CountedWith(ext_stats[i].ext))
          /\ ext_stats[i].files >= 1
          /\ ext_stats[i].code = SumCounts(CountedWith(ext_stats[i].ext), 1)
          /\ ext_stats[i].comment = SumCounts(CountedWith(ext_stats[i].ext), 2)
          /\ ext_stats[i].blank = SumCounts(CountedWith(ext_stats[i].ext), 3)
          /\ \A j \in 1..Len(ext_stats) : ext_stats[i].ext = ext_stats[j].ext => i = j
    /\ WalkOver
          => /\ output[1] = <<"T", "o", "t", "a", "l", " ", "f", "i", "l", "e", "s", ":", " ">>
                               \o Str(Cardinality(CountedFiles))
             /\ output[2] = <<"T", "o", "t", "a", "l", " ", "l", "i", "n", "e", "s", ":", " ">>
                               \o Str(SumCounts(CountedFiles, 1) + SumCounts(CountedFiles, 2)
                                        + SumCounts(CountedFiles, 3))
             /\ output[3] = <<"C", "o", "d", "e", " ", "l", "i", "n", "e", "s", ":", " ">>
                               \o Str(SumCounts(CountedFiles, 1))
             /\ output[4] = <<"C", "o", "m", "m", "e", "n", "t", " ", "l", "i", "n", "e", "s", ":", " ">>
                               \o Str(SumCounts(CountedFiles, 2))
             /\ output[5] = <<"B", "l", "a", "n", "k", " ", "l", "i", "n", "e", "s", ":", " ">>
                               \o Str(SumCounts(CountedFiles, 3))
             /\ \A i \in 1..(Len(output) - 7) :
                   /\ \E st \in SeqRange(ext_stats) : RowLine(st) = output[7 + i]
                   /\ \A j \in 1..(i - 1) :
                         RowStat(j).code + RowStat(j).comment + RowStat(j).blank
                           >= RowStat(i).code + RowStat(i).comment + RowStat(i).blank
    /\ pc = "done" => Len(output) = 7 + Len(ext_stats)

\* the walk is over, an extension has more than one file, and the extension
\* counted last has the most lines and the first row
C12_Witness ==
    /\ pc = "done"
    /\ Len(ext_stats) = 3
    /\ ext_stats[3].files >= 2
    /\ output[8] = RowLine(ext_stats[3])
    /\ Total(ext_stats[3]) > Total(ext_stats[1])
    /\ Total(ext_stats[1]) = Total(ext_stats[2])

\* the entry of this key in ext_stats, all 0 while there is none
StatOf(stats, key) ==
    IF KeyIndex(stats, key) = 0
    THEN [ext |-> key, files |-> 0, code |-> 0, comment |-> 0, blank |-> 0]
    ELSE stats[KeyIndex(stats, key)]

\* two files of the tree: gen.ts ends inside a block comment, and lib.ts is the
\* next file the walk counts when neither build nor node_modules is pruned
gen_ts == Tree[<<"src", "build">>].files[1]

lib_ts == Tree[<<"node_modules">>].files[1]

\* C17: every call of count_file begins with no delimiter pending, also when the
\* call before it returned with one pending: what a file adds to ext_stats is
\* count_file of its own name and lines, whatever was counted before it.
C17_NoLeakAcrossFiles ==
    [][(pc = "files" /\ counted' # counted)
          => LET file == Head(filenames)
                 key == Lower(Suffix(file.name))
                 own == ScanFrom(file.lines, 1,
                                 [code |-> 0, comment |-> 0, blank |-> 0, in_block_end |-> None],
                                 get_spec(file.name))
             IN  /\ StatOf(ext_stats', key).files = StatOf(ext_stats, key).files + 1
                 /\ StatOf(ext_stats', key).code = StatOf(ext_stats, key).code + own.code
                 /\ StatOf(ext_stats', key).comment = StatOf(ext_stats, key).comment + own.comment
                 /\ StatOf(ext_stats', key).blank = StatOf(ext_stats, key).blank + own.blank
                 /\ <<code', comment', blank'>> = <<own.code, own.comment, own.blank>>
                 /\ in_block_end' = own.in_block_end]_vars

\* lib.ts was counted right after gen.ts, which ends inside a block comment: its
\* line is Code
C17_Witness ==
    /\ pc = "files"
    /\ ScanAll(gen_ts.name, gen_ts.lines).in_block_end # None
    /\ <<<<"src", "build">>, gen_ts.name>> \in counted
    /\ dirpath = <<"node_modules">>
    /\ path = lib_ts.name
    /\ filenames = <<>>
    /\ <<code, comment, blank>> = <<1, 0, 0>>
    /\ StatOf(ext_stats, <<".", "t", "s">>).code = 2
    /\ StatOf(ext_stats, <<".", "t", "s">>).comment = 1

\* the directories in the order os.walk yields them from d on, top down, the
\* names in skip pruned
RECURSIVE WalkOrder(_, _)
WalkOrder(d, skip) ==
    LET kept == Prune(Tree[d].dirs, skip)
    IN  <<d>> \o Flatten([i \in 1..Len(kept) |-> WalkOrder(Append(d, kept[i]), skip)])

\* the files that pass the filters, in the order the walk comes to them
FilesInOrder(skip) ==
    LET dirs == WalkOrder(<<>>, skip)
    IN  Flatten([i \in 1..Len(dirs) |-> SelectSeq(Tree[dirs[i]].files, PassesFilters)])

\* ext_stats after these files
RECURSIVE StatsAfter(_)
StatsAfter(files) ==
    IF files = <<>>
    THEN <<>>
    ELSE LET last == files[Len(files)]
         IN  Accumulate(StatsAfter(SubSeq(files, 1, Len(files) - 1)),
                        KeyOf(last.name), count_file(last.name, last.lines))

\* the order of the rows: the larger total first, of two equal totals the one
\* whose extension was counted first
Ranked(stats) ==
    CHOOSE p \in [1..Len(stats) -> 1..Len(stats)] :
        \A i, j \in 1..Len(stats) :
            i < j => \/ Total(stats[p[i]]) > Total(stats[p[j]])
                     \/ (Total(stats[p[i]]) = Total(stats[p[j]]) /\ p[i] < p[j])

\* the report as a function of the tree and the arguments
ReportOf(include, exclude) ==
    LET stats == StatsAfter(FilesInOrder((SKIP_DIRS_DEFAULT \ include) \cup exclude))
    IN  SummaryLines(stats) \o [i \in 1..Len(stats) |-> RowLine(stats[Ranked(stats)[i]])]

\* C14: the output of a run that completes is a function of the tree and the
\* arguments alone, so two runs with the same arguments on the same tree print
\* the same report, the rows of extensions with equal totals in the same order
\* (the order in which the walk first counted them).
C14_ReportIsAFunction ==
    pc = "done" => output = ReportOf(include_dir, exclude_dir)

C14_Witness ==
    /\ pc = "done"
    /\ Len(ext_stats) = 3
    /\ Total(ext_stats[2]) = Total(ext_stats[3])
    /\ Total(ext_stats[1]) > Total(ext_stats[2])
    /\ output[9] = RowLine(ext_stats[2])
    /\ output[10] = RowLine(ext_stats[3])

====
